---- MODULE Spec2Model ----
(***************************************************************************)
(* A model of the stdVBA documentation viewer (src/src/App.tsx): the       *)
(* one-shot document fetch and its normalizer, the deep-link (?q=) effect, *)
(* the dev/user mode and panel state, and what renderContent, the sidebar  *)
(* and OnThisPagePanel put on the page for a given state.                  *)
(***************************************************************************)
EXTENDS Integers, Sequences, FiniteSets, TLC

VARIABLES
    response,               \* the answer the one fetch() gets
    q,                      \* URLSearchParams(window.location.search).get('q')
    innerWidth,             \* window.innerWidth, as "desktop" (>= 768) or "mobile"
    selectedItem,           \* useState: null or {type, name}
    data,                   \* useState: {classes, modules}
    loading,                \* useState(true)
    error,                  \* useState: null or the message
    devMode,                \* useState(false)
    isLeftPanelMinimized,
    isRightPanelMinimized,
    isLeftPanelOpenMobile,
    isRightPanelOpenMobile,
    highlightedMember,      \* useState: null or a member name
    effectPending,          \* the URL effect is scheduled for a change of data
    scrollTimer,            \* the setTimeout of the URL effect: null or its memberName
    scrolledTo,             \* the element scrollIntoView was called on, or null
    mounted                 \* FALSE once a render has thrown (React unmounts the tree)

vars == <<response, q, innerWidth, selectedItem, data, loading, error, devMode,
          isLeftPanelMinimized, isRightPanelMinimized, isLeftPanelOpenMobile,
          isRightPanelOpenMobile, highlightedMember, effectPending, scrollTimer,
          scrolledTo, mounted>>

(***************************************************************************)
(* JSON / JavaScript values.  A value is a record [jt, jv]: its type tag   *)
(* and its payload.  Strings are sequences of one-character strings, so    *)
(* that split and replace are computed on them.                            *)
(***************************************************************************)
JUndef == [jt |-> "undefined", jv |-> 0]
JNull == [jt |-> "null", jv |-> 0]
JBool(b) == [jt |-> "boolean", jv |-> b]
JNum(n) == [jt |-> "number", jv |-> n]
JStr(s) == [jt |-> "string", jv |-> s]
JArr(s) == [jt |-> "array", jv |-> s]
JObj(f) == [jt |-> "object", jv |-> f]

\* JavaScript truthiness, the left operand's test in `a || b`.
Truthy(v) ==
    CASE v.jt = "undefined" -> FALSE
      [] v.jt = "null" -> FALSE
      [] v.jt = "boolean" -> v.jv
      [] v.jt = "number" -> v.jv # 0
      [] v.jt = "string" -> v.jv # <<>>
      [] OTHER -> TRUE

\* a || b
OrElse(a, b) == IF Truthy(a) THEN a ELSE b

\* Array.isArray(v)
IsArray(v) == v.jt = "array"

\* v.f for a value that is not null or undefined: an object's own field, and
\* undefined for a missing field and for every field the normalizer reads of
\* a primitive or an array.
Get(v, f) ==
    IF v.jt = "object" /\ f \in DOMAIN v.jv THEN v.jv[f] ELSE JUndef

\* Reading a property of v throws a TypeError.
ThrowsOnRead(v) == v.jt \in {"null", "undefined"}

EmptyStr == JStr(<<>>)
EmptyArr == JArr(<<>>)
False == JBool(FALSE)
DefaultReturns ==
    JObj([f \in {"type", "description"} |->
            IF f = "type" THEN JStr(<<"V">>) ELSE EmptyStr])
DefaultDeprecation ==
    JObj([f \in {"status", "message"} |->
            IF f = "status" THEN False ELSE EmptyStr])
ReadWrite == JStr(<<"R", "W">>)

(***************************************************************************)
(* The normalizer of fetchDocumentation.                                   *)
(***************************************************************************)
\* (a slip: params, returns, throws and isProtected copied without a default)
NormalizeMemberNoDefaults(m) ==
    [name |-> Get(m, "name"),
     description |-> OrElse(Get(m, "description"), EmptyStr),
     remarks |-> OrElse(Get(m, "remarks"), EmptyArr),
     examples |-> OrElse(Get(m, "examples"), EmptyArr),
     params |-> Get(m, "params"),
     returns |-> Get(m, "returns"),
     devNotes |-> OrElse(Get(m, "devNotes"), EmptyArr),
     todos |-> OrElse(Get(m, "todos"), EmptyArr),
     throws |-> Get(m, "throws"),
     requires |-> OrElse(Get(m, "requires"), EmptyArr),
     isStatic |-> OrElse(Get(m, "isStatic"), False),
     isProtected |-> Get(m, "isProtected"),
     isDefaultMember |-> OrElse(Get(m, "isDefaultMember"), False),
     deprecation |-> OrElse(Get(m, "deprecation"), DefaultDeprecation)]

\* The object pushed for a constructor, a method or a module function.
NormalizeMember(m) ==
    [name |-> Get(m, "name"),
     description |-> OrElse(Get(m, "description"), EmptyStr),
     remarks |-> OrElse(Get(m, "remarks"), EmptyArr),
     examples |-> OrElse(Get(m, "examples"), EmptyArr),
     params |-> OrElse(Get(m, "params"), EmptyArr),
     returns |-> OrElse(Get(m, "returns"), DefaultReturns),
     devNotes |-> OrElse(Get(m, "devNotes"), EmptyArr),
     todos |-> OrElse(Get(m, "todos"), EmptyArr),
     throws |-> OrElse(Get(m, "throws"), EmptyArr),
     requires |-> OrElse(Get(m, "requires"), EmptyArr),
     isStatic |-> OrElse(Get(m, "isStatic"), False),
     isProtected |-> OrElse(Get(m, "isProtected"), False),
     isDefaultMember |-> OrElse(Get(m, "isDefaultMember"), False),
     deprecation |-> OrElse(Get(m, "deprecation"), DefaultDeprecation)]

\* The object pushed for a property: a member's fields and access.
NormalizeProperty(m) ==
    [name |-> Get(m, "name"),
     description |-> OrElse(Get(m, "description"), EmptyStr),
     remarks |-> OrElse(Get(m, "remarks"), EmptyArr),
     examples |-> OrElse(Get(m, "examples"), EmptyArr),
     params |-> OrElse(Get(m, "params"), EmptyArr),
     returns |-> OrElse(Get(m, "returns"), DefaultReturns),
     devNotes |-> OrElse(Get(m, "devNotes"), EmptyArr),
     todos |-> OrElse(Get(m, "todos"), EmptyArr),
     throws |-> OrElse(Get(m, "throws"), EmptyArr),
     requires |-> OrElse(Get(m, "requires"), EmptyArr),
     isStatic |-> OrElse(Get(m, "isStatic"), False),
     isProtected |-> OrElse(Get(m, "isProtected"), False),
     isDefaultMember |-> OrElse(Get(m, "isDefaultMember"), False),
     deprecation |-> OrElse(Get(m, "deprecation"), DefaultDeprecation),
     access |-> OrElse(Get(m, "access"), ReadWrite)]

\* The object pushed for an event: no returns, throws, flags or deprecation.
NormalizeEvent(m) ==
    [name |-> Get(m, "name"),
     description |-> OrElse(Get(m, "description"), EmptyStr),
     remarks |-> OrElse(Get(m, "remarks"), EmptyArr),
     examples |-> OrElse(Get(m, "examples"), EmptyArr),
     params |-> OrElse(Get(m, "params"), EmptyArr),
     devNotes |-> OrElse(Get(m, "devNotes"), EmptyArr),
     todos |-> OrElse(Get(m, "todos"), EmptyArr),
     requires |-> OrElse(Get(m, "requires"), EmptyArr),
     isProtected |-> OrElse(Get(m, "isProtected"), False)]

\* if (Array.isArray(v)) v.forEach(...push...): the elements of v, in order,
\* and nothing when v is not an array.
ArrayElements(v) == IF IsArray(v) THEN v.jv ELSE <<>>

\* (a slip: the field named as the list of the result is)
ModuleMemberFieldFunctions == "functions"

\* The field of a module record its functions are read from.
ModuleMemberField == "methods"

\* (a slip: the events field forgotten)
IsClassConstructorsOnly(item) == Get(item, "constructors") # JUndef

\* const isClass = item.constructors !== undefined || item.events !== undefined
IsClass(item) ==
    Get(item, "constructors") # JUndef \/ Get(item, "events") # JUndef

NormalizeClass(item) ==
    [name |-> Get(item, "name"),
     fileName |-> OrElse(Get(item, "fileName"), EmptyStr),
     description |-> OrElse(Get(item, "description"), EmptyStr),
     remarks |-> OrElse(Get(item, "remarks"), EmptyArr),
     examples |-> OrElse(Get(item, "examples"), EmptyArr),
     devNotes |-> OrElse(Get(item, "devNotes"), EmptyArr),
     todos |-> OrElse(Get(item, "todos"), EmptyArr),
     requires |-> OrElse(Get(item, "requires"), EmptyArr),
     implements |-> OrElse(Get(item, "implements"), EmptyArr),
     constructors |->
        [i \in DOMAIN ArrayElements(Get(item, "constructors")) |->
            NormalizeMember(ArrayElements(Get(item, "constructors"))[i])],
     methods |->
        [i \in DOMAIN ArrayElements(Get(item, "methods")) |->
            NormalizeMember(ArrayElements(Get(item, "methods"))[i])],
     properties |->
        [i \in DOMAIN ArrayElements(Get(item, "properties")) |->
            NormalizeProperty(ArrayElements(Get(item, "properties"))[i])],
     events |->
        [i \in DOMAIN ArrayElements(Get(item, "events")) |->
            NormalizeEvent(ArrayElements(Get(item, "events"))[i])]]

NormalizeModule(item) ==
    [name |-> Get(item, "name"),
     fileName |-> OrElse(Get(item, "fileName"), EmptyStr),
     description |-> OrElse(Get(item, "description"), EmptyStr),
     remarks |-> OrElse(Get(item, "remarks"), EmptyArr),
     examples |-> OrElse(Get(item, "examples"), EmptyArr),
     devNotes |-> OrElse(Get(item, "devNotes"), EmptyArr),
     todos |-> OrElse(Get(item, "todos"), EmptyArr),
     requires |-> OrElse(Get(item, "requires"), EmptyArr),
     functions |->
        [i \in DOMAIN ArrayElements(Get(item, ModuleMemberField)) |->
            NormalizeMember(ArrayElements(Get(item, ModuleMemberField))[i])]]

\* The member arrays the normalizer walks for a record.
MemberFieldsRead(item) ==
    IF IsClass(item) THEN {"constructors", "properties", "methods", "events"}
    ELSE {ModuleMemberField}

\* Normalizing the record throws: the record itself, or a member the
\* normalizer walks, is null.
ItemThrows(item) ==
    \/ ThrowsOnRead(item)
    \/ \E f \in MemberFieldsRead(item) :
         \E i \in DOMAIN ArrayElements(Get(item, f)) :
            ThrowsOnRead(ArrayElements(Get(item, f))[i])

\* (a slip: a body that is no array is thrown on as an invalid document)
NormalizeThrowsOnNonArray(jsonData) ==
    \/ ~IsArray(jsonData)
    \/ \E i \in DOMAIN ArrayElements(jsonData) : ItemThrows(ArrayElements(jsonData)[i])

\* The body of the try block after response.json(): throws, or the
\* {classes, modules} handed to setData.
NormalizeThrows(jsonData) ==
    \E i \in DOMAIN ArrayElements(jsonData) : ItemThrows(ArrayElements(jsonData)[i])

RECURSIVE SelectItems(_, _)
\* The records of `items` that are classes (wantClass) or modules, in order.
SelectItems(items, wantClass) ==
    IF items = <<>> THEN <<>>
    ELSE IF IsClass(Head(items)) = wantClass
         THEN <<Head(items)>> \o SelectItems(Tail(items), wantClass)
         ELSE SelectItems(Tail(items), wantClass)

\* (a slip: unshift for push)
NormalizeReversed(jsonData) ==
    LET cs == SelectItems(ArrayElements(jsonData), TRUE)
        ms == SelectItems(ArrayElements(jsonData), FALSE)
    IN  [classes |-> [i \in DOMAIN cs |-> NormalizeClass(cs[Len(cs) + 1 - i])],
         modules |-> [i \in DOMAIN ms |-> NormalizeModule(ms[Len(ms) + 1 - i])]]

\* The {classes, modules} handed to setData: each record of the array, in
\* order, pushed to classes or to modules.
Normalize(jsonData) ==
    LET cs == SelectItems(ArrayElements(jsonData), TRUE)
        ms == SelectItems(ArrayElements(jsonData), FALSE)
    IN  [classes |-> [i \in DOMAIN cs |-> NormalizeClass(cs[i])],
         modules |-> [i \in DOMAIN ms |-> NormalizeModule(ms[i])]]

(***************************************************************************)
(* Strings.                                                                *)
(***************************************************************************)
IsWhitespace(c) == c = " "

RECURSIVE DropWhitespace(_)
DropWhitespace(s) ==
    IF s # <<>> /\ IsWhitespace(Head(s)) THEN DropWhitespace(Tail(s)) ELSE s

RECURSIVE ReplaceWhitespace(_)
\* s.replace(/\s+/g, '-'): every run of whitespace becomes one '-'.
ReplaceWhitespace(s) ==
    IF s = <<>> THEN <<>>
    ELSE IF IsWhitespace(Head(s))
         THEN <<"-">> \o ReplaceWhitespace(DropWhitespace(s))
         ELSE <<Head(s)>> \o ReplaceWhitespace(Tail(s))

RECURSIVE Split(_, _)
\* s.split(sep) for a one-character separator: the pieces between separators.
Split(s, sep) ==
    IF s = <<>> THEN << <<>> >>
    ELSE LET rest == Split(Tail(s), sep)
         IN  IF Head(s) = sep THEN << <<>> >> \o rest
             ELSE << <<Head(s)>> \o Head(rest) >> \o Tail(rest)

\* The collation rank of a character (String.prototype.localeCompare).
CharRank(c) ==
    CASE c = " " -> 1
      [] c = "-" -> 2
      [] c = "." -> 3
      [] c = "A" -> 4
      [] c = "B" -> 5
      [] c = "C" -> 6
      [] c = "x" -> 7
      [] c = "y" -> 8
      [] OTHER -> 9

RECURSIVE LocaleCompare(_, _)
\* a.localeCompare(b) on character sequences: -1, 0 or 1.
LocaleCompare(a, b) ==
    IF a = <<>> /\ b = <<>> THEN 0
    ELSE IF a = <<>> THEN -1
    ELSE IF b = <<>> THEN 1
    ELSE IF CharRank(Head(a)) < CharRank(Head(b)) THEN -1
    ELSE IF CharRank(Head(a)) > CharRank(Head(b)) THEN 1
    ELSE LocaleCompare(Tail(a), Tail(b))

\* The element id of a member's detail block: name.replace(/\s+/g, '-') + '-detail'.
MemberId(name) == ReplaceWhitespace(name) \o <<"-detail">>

\* The element id of a section header.
SectionId(kind) ==
    CASE kind = "constructor" -> <<"constructors-section">>
      [] kind = "property" -> <<"properties-section">>
      [] kind = "method" -> <<"methods-section">>
      [] kind = "event" -> <<"events-section">>
      [] OTHER -> <<"functions-section">>

(***************************************************************************)
(* The state of App and what it renders.                                   *)
(***************************************************************************)
NoSelection == [type |-> "none", name |-> JNull]
NoError == "null"
ErrorMessage == "Failed to load documentation. Please try again later. Check console for details."
NoElement == [kind |-> "none", index |-> 0]
EmptyData == [classes |-> <<>>, modules |-> <<>>]

RECURSIVE FindFrom(_, _, _)
\* The index of the first element of list, from index i on, whose name is
\* strictly equal to the string `name`; 0 when there is none.
FindFrom(list, name, i) ==
    IF i > Len(list) THEN 0
    ELSE IF list[i].name = JStr(name) THEN i
    ELSE FindFrom(list, name, i + 1)

\* list.find(c => c.name === name), as an index (0: undefined).
FindIndex(list, name) == FindFrom(list, name, 1)

RECURSIVE FindNameFrom(_, _, _)
\* The index of the first element of list, from index i on, whose name is
\* strictly equal to the value `name` (a string, or the undefined of a
\* record without a name); 0 when there is none.
FindNameFrom(list, name, i) ==
    IF i > Len(list) THEN 0
    ELSE IF list[i].name = name THEN i
    ELSE FindNameFrom(list, name, i + 1)

\* data.classes.find / data.modules.find for a selection (0: not found).
SelectedIndexIn(sel, dat) ==
    IF sel.type = "class" THEN FindNameFrom(dat.classes, sel.name, 1)
    ELSE IF sel.type = "module" THEN FindNameFrom(dat.modules, sel.name, 1)
    ELSE 0
SelectedIndex == SelectedIndexIn(selectedItem, data)

\* The branch of renderContent taken for a state of the component.
ContentIn(ld, err, sel, dat) ==
    IF ld THEN "loading"
    ELSE IF err # NoError THEN "error"
    ELSE IF sel = NoSelection THEN "welcome"
    ELSE IF sel.type = "class"
         THEN (IF SelectedIndexIn(sel, dat) = 0 THEN "classNotFound" ELSE "class")
         ELSE (IF SelectedIndexIn(sel, dat) = 0 THEN "moduleNotFound" ELSE "module")
Content == ContentIn(loading, error, selectedItem, data)

\* The selected class or module object (only where one is found).
SelectedObjectIn(sel, dat) ==
    IF sel.type = "class" THEN dat.classes[SelectedIndexIn(sel, dat)]
    ELSE dat.modules[SelectedIndexIn(sel, dat)]
SelectedObject == SelectedObjectIn(selectedItem, data)

RECURSIVE FilterIndices(_, _, _)
\* The indices i..Len(list) of the members a mode shows, in order:
\* dev ? list : list.filter(m => !m.isProtected).
FilterIndices(list, dev, i) ==
    IF i > Len(list) THEN <<>>
    ELSE IF dev \/ ~Truthy(list[i].isProtected)
         THEN <<i>> \o FilterIndices(list, dev, i + 1)
         ELSE FilterIndices(list, dev, i + 1)

\* (a slip: the filter keeps the protected members)
VisibleIndicesInverted(list, dev) ==
    IF dev THEN FilterIndices(list, TRUE, 1)
    ELSE SelectSeq(FilterIndices(list, TRUE, 1), LAMBDA i : Truthy(list[i].isProtected))

\* (a slip: no filter in user mode)
VisibleIndicesUnfiltered(list, dev) == FilterIndices(list, TRUE, 1)

\* The indices of the members of list a mode shows.
VisibleIndices(list, dev) == FilterIndices(list, dev, 1)

\* The list of a class that holds the members of a kind.
ListOf(obj, kind) ==
    CASE kind = "constructor" -> obj.constructors
      [] kind = "property" -> obj.properties
      [] kind = "method" -> obj.methods
      [] kind = "event" -> obj.events
      [] OTHER -> obj.functions

\* highlight={highlightedMember === member.name}
DetailHighlight(name, hm) == hm = name

\* The elements with an id that one section of the detail view renders for
\* the members `shown` (indices into list): its header, then a block per member.
SectionElements(list, kind, shown, hm) ==
    IF shown = <<>> THEN <<>>
    ELSE << [etype |-> "section", id |-> SectionId(kind), kind |-> kind, index |-> 0,
             name |-> JNull, highlight |-> FALSE] >>
         \o [j \in DOMAIN shown |->
                [etype |-> "member",
                 id |-> IF list[shown[j]].name.jt = "string"
                        THEN MemberId(list[shown[j]].name.jv) ELSE <<>>,
                 kind |-> kind, index |-> shown[j],
                 name |-> list[shown[j]].name,
                 highlight |-> DetailHighlight(list[shown[j]].name, hm)]]

\* The detail view of a class in a mode: the four sections, each over the
\* members the mode shows.
ClassDetail(cls, dev, hm) ==
    SectionElements(cls.constructors, "constructor", VisibleIndices(cls.constructors, dev), hm)
    \o SectionElements(cls.properties, "property", VisibleIndices(cls.properties, dev), hm)
    \o SectionElements(cls.methods, "method", VisibleIndices(cls.methods, dev), hm)
    \o SectionElements(cls.events, "event", VisibleIndices(cls.events, dev), hm)

\* A detail view of a module that filters the functions by the mode, as the
\* detail view of a class filters its members.
ModuleDetailFiltered(mod, dev, hm) ==
    SectionElements(mod.functions, "function", VisibleIndices(mod.functions, dev), hm)

\* The detail view of a module: every function, whatever the mode.
ModuleDetail(mod, dev, hm) ==
    SectionElements(mod.functions, "function", VisibleIndices(mod.functions, TRUE), hm)

\* The elements with an id that renderContent puts on the page for a
\* selection, a mode and a highlight.
DetailIn(ld, err, sel, dat, dev, hm) ==
    IF ContentIn(ld, err, sel, dat) = "class"
        THEN ClassDetail(SelectedObjectIn(sel, dat), dev, hm)
    ELSE IF ContentIn(ld, err, sel, dat) = "module"
        THEN ModuleDetail(SelectedObjectIn(sel, dat), dev, hm)
    ELSE <<>>

\* The detail view of the present selection in a mode, with a highlight.
DetailFor(dev, hm) == DetailIn(loading, error, selectedItem, data, dev, hm)

\* The detail view of the current state.
Detail == IF mounted THEN DetailFor(devMode, highlightedMember) ELSE <<>>

\* The entries one member list adds to the outline: a header when the list
\* itself is not empty, then the members the mode shows.
OutlineSection(list, kind, shown, hm) ==
    IF list = <<>> THEN <<>>
    ELSE << [etype |-> "section", id |-> SectionId(kind), kind |-> kind, index |-> 0,
             name |-> JNull, highlight |-> FALSE] >>
         \o [j \in DOMAIN shown |->
                [etype |-> "member",
                 id |-> IF list[shown[j]].name.jt = "string"
                        THEN MemberId(list[shown[j]].name.jv) ELSE <<>>,
                 kind |-> kind, index |-> shown[j],
                 name |-> list[shown[j]].name,
                 highlight |-> Truthy(hm) /\ list[shown[j]].name = hm]]

\* The members array OnThisPagePanel builds for the item the aside finds
\* for the selection (nothing for an undefined item).
OutlineIn(sel, dat, dev, hm) ==
    IF SelectedIndexIn(sel, dat) = 0 THEN <<>>
    ELSE IF sel.type = "class" THEN
        LET cls == SelectedObjectIn(sel, dat)
        IN  OutlineSection(cls.constructors, "constructor", VisibleIndices(cls.constructors, dev), hm)
            \o OutlineSection(cls.properties, "property", VisibleIndices(cls.properties, dev), hm)
            \o OutlineSection(cls.methods, "method", VisibleIndices(cls.methods, dev), hm)
            \o OutlineSection(cls.events, "event", VisibleIndices(cls.events, dev), hm)
    ELSE
        LET mod == SelectedObjectIn(sel, dat)
        IN  OutlineSection(mod.functions, "function", VisibleIndices(mod.functions, TRUE), hm)

\* The outline of the present selection in a mode, with a highlight.
OutlineFor(dev, hm) == OutlineIn(selectedItem, data, dev, hm)

\* The right-hand aside is rendered and shows the panel (and not its
\* minimized strip).
AsideShown ==
    /\ selectedItem # NoSelection
    /\ ~isRightPanelMinimized \/ isRightPanelOpenMobile
OutlineShown == mounted /\ AsideShown

\* The outline of the current state.
Outline == IF OutlineShown THEN OutlineFor(devMode, highlightedMember) ELSE <<>>

\* The left aside shows the navigation lists (and not its minimized strip).
SidebarShown == ~isLeftPanelMinimized \/ isLeftPanelOpenMobile

\* The comparator of the sidebar sort: a.name.localeCompare(b.name).
CompareNames(a, b) ==
    IF a.jt = "string" /\ b.jt = "string" THEN LocaleCompare(a.jv, b.jv) ELSE 0

RECURSIVE InsertByName(_, _, _)
\* sorted with index i inserted before the first entry that compares greater.
InsertByName(sorted, i, list) ==
    IF sorted = <<>> THEN <<i>>
    ELSE IF CompareNames(list[Head(sorted)].name, list[i].name) > 0
         THEN <<i>> \o sorted
         ELSE <<Head(sorted)>> \o InsertByName(Tail(sorted), i, list)

RECURSIVE SortPrefix(_, _)
SortPrefix(list, n) ==
    IF n = 0 THEN <<>> ELSE InsertByName(SortPrefix(list, n - 1), n, list)

\* (a slip: the sort left out)
SortedIndicesUnsorted(list) == [i \in DOMAIN list |-> i]

\* list.slice().sort((a, b) => a.name.localeCompare(b.name)), as the indices
\* of list in sorted order (the sort is stable).
SortedIndices(list) == SortPrefix(list, Len(list))

\* The names a navigation list renders, top to bottom.
SidebarNames(list) ==
    IF mounted /\ SidebarShown
    THEN [j \in DOMAIN list |-> list[SortedIndices(list)[j]].name]
    ELSE <<>>

SidebarClasses == SidebarNames(data.classes)
SidebarModules == SidebarNames(data.modules)

\* The comparator dereferences a.name.localeCompare: it throws when its
\* first argument has a name that is no string.  Which entries the engine's
\* sort passes first is its own choice: with no entry named the sort
\* throws, with some entry not named it may.
SortThrows(list) ==
    Len(list) >= 2 /\ \A i \in DOMAIN list : list[i].name.jt # "string"
SortMayThrow(list) ==
    Len(list) >= 2 /\ \E i \in DOMAIN list : list[i].name.jt # "string"

\* member.name.replace(...) throws for a member shown with a name that is
\* not a string.
ElementsThrow(elements) ==
    \E i \in DOMAIN elements :
        elements[i].etype = "member" /\ elements[i].name.jt # "string"

\* Rendering a state of the component throws: in the sort of a navigation
\* list that is shown, in the detail view or in the outline that is shown.
RenderThrowsIn(ld, err, sel, dat, dev, hm, sidebar, aside) ==
    \/ sidebar /\ (SortThrows(dat.classes) \/ SortThrows(dat.modules))
    \/ ElementsThrow(DetailIn(ld, err, sel, dat, dev, hm))
    \/ aside /\ ElementsThrow(OutlineIn(sel, dat, dev, hm))

\* Rendering a state may throw, by the engine's order of comparisons.
RenderMayThrowIn(dat, sidebar) ==
    sidebar /\ (SortMayThrow(dat.classes) \/ SortMayThrow(dat.modules))

\* Rendering the current state throws.
RenderThrows ==
    RenderThrowsIn(loading, error, selectedItem, data, devMode, highlightedMember,
                   SidebarShown, AsideShown)

\* (a slip: the last element with the id)
GetLastElementById(id) ==
    LET hits == {i \in DOMAIN Detail : Detail[i].id = id}
    IN  IF hits = {} THEN NoElement
        ELSE LET last == CHOOSE i \in hits : \A j \in hits : j <= i
             IN  [kind |-> Detail[last].kind, index |-> Detail[last].index]

\* document.getElementById(id): the first element of the page with the id.
GetElementById(id) ==
    LET hits == {i \in DOMAIN Detail : Detail[i].id = id}
    IN  IF hits = {} THEN NoElement
        ELSE LET first == CHOOSE i \in hits : \A j \in hits : i <= j
             IN  [kind |-> Detail[first].kind, index |-> Detail[first].index]

(***************************************************************************)
(* The operations.                                                         *)
(***************************************************************************)
\* Every action ends with the render of the new state: a render that throws
\* unmounts the tree for good.
Rendered ==
    \/ mounted' = (mounted /\ ~RenderThrowsIn(loading', error', selectedItem', data', devMode',
                                              highlightedMember', SidebarShown', AsideShown'))
    \/ /\ mounted /\ RenderMayThrowIn(data', SidebarShown')
       /\ mounted' = FALSE

\* fetchDocumentation, the fetch fulfilled with an OK response whose body
\* parses and normalizes: setData, then setLoading(false) in finally.  The
\* new data.classes / data.modules schedule the URL effect.
FetchSucceeds ==
    /\ loading
    /\ response.kind = "json"
    /\ ~NormalizeThrows(response.body)
    /\ data' = Normalize(response.body)
    /\ loading' = FALSE
    /\ effectPending' = TRUE
    /\ UNCHANGED <<response, q, innerWidth, selectedItem, error, devMode,
                   isLeftPanelMinimized, isRightPanelMinimized,
                   isLeftPanelOpenMobile, isRightPanelOpenMobile,
                   highlightedMember, scrollTimer, scrolledTo>>
    /\ Rendered

\* (a slip: the records normalized before the failure reach the state)
FetchFailsKeepingPrefix ==
    /\ loading
    /\ \/ response.kind \in {"reject", "notOk", "badJson"}
       \/ response.kind = "json" /\ NormalizeThrows(response.body)
    /\ error' = ErrorMessage
    /\ loading' = FALSE
    /\ data' = IF response.kind = "json" /\ Len(response.body.jv) > 1
               THEN Normalize(JArr(SubSeq(response.body.jv, 1, 1))) ELSE data
    /\ UNCHANGED <<response, q, innerWidth, selectedItem, devMode,
                   isLeftPanelMinimized, isRightPanelMinimized,
                   isLeftPanelOpenMobile, isRightPanelOpenMobile,
                   highlightedMember, effectPending, scrollTimer, scrolledTo>>
    /\ Rendered

\* (a slip: no finally block, a failure leaves the loading flag set)
FetchFailsWithoutFinally ==
    /\ loading
    /\ \/ response.kind \in {"reject", "notOk", "badJson"}
       \/ response.kind = "json" /\ NormalizeThrows(response.body)
    /\ error' = ErrorMessage
    /\ UNCHANGED <<response, q, innerWidth, selectedItem, data, loading, devMode,
                   isLeftPanelMinimized, isRightPanelMinimized,
                   isLeftPanelOpenMobile, isRightPanelOpenMobile,
                   highlightedMember, effectPending, scrollTimer, scrolledTo>>
    /\ Rendered

\* fetchDocumentation, the catch block: fetch rejects, the status is not OK,
\* response.json() rejects, or the normalizer throws.  setError, then
\* setLoading(false) in finally; setData is never reached.
FetchFails ==
    /\ loading
    /\ \/ response.kind \in {"reject", "notOk", "badJson"}
       \/ response.kind = "json" /\ NormalizeThrows(response.body)
    /\ error' = ErrorMessage
    /\ loading' = FALSE
    /\ UNCHANGED <<response, q, innerWidth, selectedItem, data, devMode,
                   isLeftPanelMinimized, isRightPanelMinimized,
                   isLeftPanelOpenMobile, isRightPanelOpenMobile,
                   highlightedMember, effectPending, scrollTimer, scrolledTo>>
    /\ Rendered

\* const [itemName, memberName] = q.split('.')
ItemNameOf(query) == Split(query, ".")[1]
MemberNameOf(query) ==
    IF Len(Split(query, ".")) >= 2 THEN JStr(Split(query, ".")[2]) ELSE JUndef

\* (a slip: the modules looked up first)
ResolveModuleFirst(itemName) ==
    IF FindIndex(data.modules, itemName) # 0 THEN 0 ELSE FindIndex(data.classes, itemName)

\* (a slip: the first class taken when none has the name)
ResolveClassOrFirst(itemName) ==
    IF FindIndex(data.classes, itemName) # 0 THEN FindIndex(data.classes, itemName)
    ELSE IF data.classes # <<>> THEN 1 ELSE 0

\* The class the URL effect resolves itemName to (0: none).
ResolveClass(itemName) == FindIndex(data.classes, itemName)

\* The URL effect, run for the data set by the fetch.
UrlEffect ==
    /\ effectPending
    /\ mounted
    /\ effectPending' = FALSE
    /\ IF Truthy(q) /\ Len(data.classes) + Len(data.modules) > 0
       THEN LET itemName == ItemNameOf(q.jv)
                memberName == MemberNameOf(q.jv)
                cls == ResolveClass(itemName)
                mod == FindIndex(data.modules, itemName)
            IN  IF cls # 0
                THEN /\ selectedItem' = [type |-> "class", name |-> data.classes[cls].name]
                     /\ IF Truthy(memberName)
                        THEN highlightedMember' = memberName /\ scrollTimer' = memberName
                        ELSE UNCHANGED <<highlightedMember, scrollTimer>>
                ELSE IF mod # 0
                THEN /\ selectedItem' = [type |-> "module", name |-> data.modules[mod].name]
                     /\ IF Truthy(memberName)
                        THEN highlightedMember' = memberName /\ scrollTimer' = memberName
                        ELSE UNCHANGED <<highlightedMember, scrollTimer>>
                ELSE UNCHANGED <<selectedItem, highlightedMember, scrollTimer>>
       ELSE /\ highlightedMember' = JNull
            /\ UNCHANGED <<selectedItem, scrollTimer>>
    /\ UNCHANGED <<response, q, innerWidth, data, loading, error, devMode,
                   isLeftPanelMinimized, isRightPanelMinimized,
                   isLeftPanelOpenMobile, isRightPanelOpenMobile, scrolledTo>>
    /\ Rendered

\* (a slip: setInterval for setTimeout, the lookup repeats)
ScrollTimerRepeats ==
    /\ scrollTimer # JNull
    /\ scrolledTo' = GetElementById(MemberId(scrollTimer.jv))
    /\ UNCHANGED <<response, q, innerWidth, selectedItem, data, loading, error,
                   devMode, isLeftPanelMinimized, isRightPanelMinimized,
                   isLeftPanelOpenMobile, isRightPanelOpenMobile,
                   highlightedMember, effectPending, scrollTimer, mounted>>

\* The setTimeout callback of the URL effect: one lookup of the member's
\* element on the page as it is then, and a scroll when it is there.
ScrollTimerFires ==
    /\ scrollTimer # JNull
    /\ scrollTimer' = JNull
    /\ scrolledTo' = GetElementById(MemberId(scrollTimer.jv))
    /\ UNCHANGED <<response, q, innerWidth, selectedItem, data, loading, error,
                   devMode, isLeftPanelMinimized, isRightPanelMinimized,
                   isLeftPanelOpenMobile, isRightPanelOpenMobile,
                   highlightedMember, effectPending, mounted>>

\* A click on entry i of the Classes list of the sidebar.
SelectClass(i) ==
    /\ mounted /\ SidebarShown
    /\ selectedItem' = [type |-> "class", name |-> data.classes[i].name]
    /\ UNCHANGED <<response, q, innerWidth, data, loading, error, devMode,
                   isLeftPanelMinimized, isRightPanelMinimized,
                   isLeftPanelOpenMobile, isRightPanelOpenMobile,
                   highlightedMember, effectPending, scrollTimer, scrolledTo>>
    /\ Rendered

\* (a slip: the click on a module selects a class of its name)
SelectModuleAsClass(i) ==
    /\ mounted /\ SidebarShown
    /\ selectedItem' = [type |-> "class", name |-> data.modules[i].name]
    /\ UNCHANGED <<response, q, innerWidth, data, loading, error, devMode,
                   isLeftPanelMinimized, isRightPanelMinimized,
                   isLeftPanelOpenMobile, isRightPanelOpenMobile,
                   highlightedMember, effectPending, scrollTimer, scrolledTo>>
    /\ Rendered

\* A click on entry i of the Modules list of the sidebar.
SelectModule(i) ==
    /\ mounted /\ SidebarShown
    /\ selectedItem' = [type |-> "module", name |-> data.modules[i].name]
    /\ UNCHANGED <<response, q, innerWidth, data, loading, error, devMode,
                   isLeftPanelMinimized, isRightPanelMinimized,
                   isLeftPanelOpenMobile, isRightPanelOpenMobile,
                   highlightedMember, effectPending, scrollTimer, scrolledTo>>
    /\ Rendered

\* (a slip: the render sorts the lists of the document in place)
handleToggleModeSortingData ==
    /\ mounted
    /\ Content \in {"welcome", "class", "module"}
    /\ devMode' = ~devMode
    /\ data' = [classes |-> [k \in DOMAIN data.classes |->
                                data.classes[SortedIndices(data.classes)[k]]],
                modules |-> [k \in DOMAIN data.modules |->
                                data.modules[SortedIndices(data.modules)[k]]]]
    /\ UNCHANGED <<response, q, innerWidth, selectedItem, loading, error,
                   isLeftPanelMinimized, isRightPanelMinimized,
                   isLeftPanelOpenMobile, isRightPanelOpenMobile,
                   highlightedMember, effectPending, scrollTimer, scrolledTo>>
    /\ Rendered

\* The Mode button, which the welcome view and the detail views render.
handleToggleMode ==
    /\ mounted
    /\ Content \in {"welcome", "class", "module"}
    /\ devMode' = ~devMode
    /\ UNCHANGED <<response, q, innerWidth, selectedItem, data, loading, error,
                   isLeftPanelMinimized, isRightPanelMinimized,
                   isLeftPanelOpenMobile, isRightPanelOpenMobile,
                   highlightedMember, effectPending, scrollTimer, scrolledTo>>
    /\ Rendered

\* The minimize button of the left aside (hidden md:block).
toggleLeftPanelDesktop ==
    /\ mounted
    /\ innerWidth = "desktop"
    /\ isLeftPanelMinimized' = ~isLeftPanelMinimized
    /\ UNCHANGED <<response, q, innerWidth, selectedItem, data, loading, error,
                   devMode, isRightPanelMinimized,
                   isLeftPanelOpenMobile, isRightPanelOpenMobile,
                   highlightedMember, effectPending, scrollTimer, scrolledTo>>
    /\ Rendered

\* The minimize button of the right aside, rendered for a selection.
toggleRightPanelDesktop ==
    /\ mounted
    /\ innerWidth = "desktop"
    /\ selectedItem # NoSelection
    /\ isRightPanelMinimized' = ~isRightPanelMinimized
    /\ UNCHANGED <<response, q, innerWidth, selectedItem, data, loading, error,
                   devMode, isLeftPanelMinimized,
                   isLeftPanelOpenMobile, isRightPanelOpenMobile,
                   highlightedMember, effectPending, scrollTimer, scrolledTo>>
    /\ Rendered

\* The left button of the mobile header (md:hidden).
openLeftPanelMobile ==
    /\ mounted
    /\ innerWidth = "mobile"
    /\ isLeftPanelOpenMobile' = TRUE
    /\ isRightPanelOpenMobile' = FALSE
    /\ UNCHANGED <<response, q, innerWidth, selectedItem, data, loading, error,
                   devMode, isLeftPanelMinimized, isRightPanelMinimized,
                   highlightedMember, effectPending, scrollTimer, scrolledTo>>
    /\ Rendered

\* An opening of the right overlay that leaves the left overlay as it is.
openRightPanelMobileKeepingLeft ==
    /\ mounted
    /\ innerWidth = "mobile"
    /\ selectedItem # NoSelection
    /\ isRightPanelOpenMobile' = TRUE
    /\ UNCHANGED <<response, q, innerWidth, selectedItem, data, loading, error,
                   devMode, isLeftPanelMinimized, isRightPanelMinimized,
                   isLeftPanelOpenMobile,
                   highlightedMember, effectPending, scrollTimer, scrolledTo>>
    /\ Rendered

\* The right button of the mobile header, rendered for a selection.
openRightPanelMobile ==
    /\ mounted
    /\ innerWidth = "mobile"
    /\ selectedItem # NoSelection
    /\ isRightPanelOpenMobile' = TRUE
    /\ isLeftPanelOpenMobile' = FALSE
    /\ UNCHANGED <<response, q, innerWidth, selectedItem, data, loading, error,
                   devMode, isLeftPanelMinimized, isRightPanelMinimized,
                   highlightedMember, effectPending, scrollTimer, scrolledTo>>
    /\ Rendered

\* The handler that closes both overlays. No element of the page is bound
\* to it, so it is no disjunct of Next; PanelsSpec lets it be called.
closeMobilePanels ==
    /\ mounted
    /\ isLeftPanelOpenMobile' = FALSE
    /\ isRightPanelOpenMobile' = FALSE
    /\ UNCHANGED <<response, q, innerWidth, selectedItem, data, loading, error,
                   devMode, isLeftPanelMinimized, isRightPanelMinimized,
                   highlightedMember, effectPending, scrollTimer, scrolledTo>>
    /\ Rendered

\* The window's resize listener, for the new width.
handleResize(width) ==
    /\ mounted
    /\ innerWidth' = width
    /\ IF width = "desktop"
       THEN /\ isLeftPanelMinimized' = FALSE
            /\ isRightPanelMinimized' = FALSE
            /\ isLeftPanelOpenMobile' = FALSE
            /\ isRightPanelOpenMobile' = FALSE
       ELSE /\ isLeftPanelMinimized' = TRUE
            /\ isRightPanelMinimized' = TRUE
            /\ UNCHANGED <<isLeftPanelOpenMobile, isRightPanelOpenMobile>>
    /\ UNCHANGED <<response, q, selectedItem, data, loading, error, devMode,
                   highlightedMember, effectPending, scrollTimer, scrolledTo>>
    /\ Rendered

Widths == {"desktop", "mobile"}

Next ==
    \/ FetchSucceeds
    \/ FetchFails
    \/ UrlEffect
    \/ ScrollTimerFires
    \/ \E i \in DOMAIN data.classes : SelectClass(i)
    \/ \E i \in DOMAIN data.modules : SelectModule(i)
    \/ handleToggleMode
    \/ toggleLeftPanelDesktop
    \/ toggleRightPanelDesktop
    \/ openLeftPanelMobile
    \/ openRightPanelMobile
    \/ \E width \in Widths : handleResize(width)

(***************************************************************************)
(* The inputs: the responses the fetch may get and the q parameter.        *)
(***************************************************************************)
\* Most members of one member list, and most records of one document.
MaxMembers == 2
MaxRecords == 2

\* An object with the fields of `fields` that are not undefined.
MkObj(fields) ==
    JObj([f \in {g \in DOMAIN fields : fields[g] # JUndef} |-> fields[f]])

SeqsUpTo(S, n) == UNION {[1..k -> S] : k \in 0..n}

ItemNames == {<<"A">>, <<"B">>}
MemberNames == {<<"x">>, <<"y">>}

\* A member as the document gives it: a name and its isProtected flag.
RawMember(name, prot) == MkObj([name |-> JStr(name), isProtected |-> JBool(prot)])
RawMembers == {RawMember(n, p) : n \in MemberNames, p \in BOOLEAN}
MemberSeqs == SeqsUpTo(RawMembers, MaxMembers)

\* One record named A that holds the members ms: as the constructors, the
\* properties, the methods or the events of a class, split over the
\* constructors and the methods of a class, or as the functions of a module.
Layouts == {"constructor", "property", "method", "event", "split", "function"}
RichRecord(layout, ms) ==
    CASE layout = "constructor" ->
            MkObj([name |-> JStr(<<"A">>), constructors |-> JArr(ms)])
      [] layout = "property" ->
            MkObj([name |-> JStr(<<"A">>), properties |-> JArr(ms), events |-> EmptyArr])
      [] layout = "method" ->
            MkObj([name |-> JStr(<<"A">>), methods |-> JArr(ms), constructors |-> EmptyArr])
      [] layout = "event" ->
            MkObj([name |-> JStr(<<"A">>), events |-> JArr(ms)])
      [] layout = "split" ->
            MkObj([name |-> JStr(<<"A">>),
                   constructors |-> JArr(IF ms = <<>> THEN <<>> ELSE <<Head(ms)>>),
                   methods |-> JArr(IF ms = <<>> THEN <<>> ELSE Tail(ms))])
      [] OTHER ->
            MkObj([name |-> JStr(<<"A">>), methods |-> JArr(ms)])

\* Documents of one record with up to MaxMembers members.
MemberDocuments == {JArr(<<RichRecord(l, ms)>>) : l \in Layouts, ms \in MemberSeqs}
MemberQueries == {JStr(<<"A", ".", "x">>)}

\* A class and a module with one public member x each.
PlainClass(n) ==
    MkObj([name |-> JStr(n), constructors |-> EmptyArr,
           methods |-> JArr(<<RawMember(<<"x">>, FALSE)>>)])
PlainModule(n) == MkObj([name |-> JStr(n), methods |-> JArr(<<RawMember(<<"x">>, FALSE)>>)])
PlainRecords == {PlainClass(n) : n \in ItemNames} \cup {PlainModule(n) : n \in ItemNames}

\* Documents of up to MaxRecords records, and bodies that are no document:
\* a JSON object, and an array with a null element after a record.
ItemDocuments ==
    {JArr(s) : s \in SeqsUpTo(PlainRecords, MaxRecords)}
    \cup {MkObj([name |-> JStr(<<"A">>)]), JArr(<<PlainClass(<<"A">>), JNull>>)}
\* The shapes q may have: absent, an item, an item and a member, a
\* trailing dot, a third piece, an item the document lacks.
ItemQueries ==
    {JNull, JStr(<<"A">>), JStr(<<"A", ".", "x">>), JStr(<<"A", ".">>),
     JStr(<<"A", ".", "x", ".", "y">>), JStr(<<"C">>)}

\* fetch() rejects, the status is not OK, or the body is not JSON.
FailedResponses == {[kind |-> k, body |-> JNull] : k \in {"reject", "notOk", "badJson"}}

JsonResponses(documents) == {[kind |-> "json", body |-> d] : d \in documents}

\* The state after the first render and the mount effects: the URL effect on
\* the empty document, handleResize for the window's width, and the fetch
\* under way.
Mounted(responses, queries) ==
    /\ response \in responses
    /\ q \in queries
    /\ innerWidth \in Widths
    /\ selectedItem = NoSelection
    /\ data = EmptyData
    /\ loading = TRUE
    /\ error = NoError
    /\ devMode = FALSE
    /\ isLeftPanelMinimized = (innerWidth = "mobile")
    /\ isRightPanelMinimized = (innerWidth = "mobile")
    /\ isLeftPanelOpenMobile = FALSE
    /\ isRightPanelOpenMobile = FALSE
    /\ highlightedMember = JNull
    /\ effectPending = FALSE
    /\ scrollTimer = JNull
    /\ scrolledTo = NoElement
    /\ mounted = TRUE

Init ==
    \/ Mounted(JsonResponses(MemberDocuments), MemberQueries)
    \/ Mounted(JsonResponses(ItemDocuments) \cup FailedResponses, ItemQueries)

Spec == Init /\ [][Next]_vars

\* The application with a fetch that settles: the promise of fetch() and of
\* response.json() is resolved or rejected in the end.
LiveSpec == Init /\ [][Next]_vars /\ WF_vars(FetchSucceeds) /\ WF_vars(FetchFails)

\* The application with closeMobilePanels callable at any time.
PanelsNext == Next \/ closeMobilePanels
PanelsSpec == Init /\ [][PanelsNext]_vars

(***************************************************************************)
(* The loader alone, on documents that exercise the normalizer: fields     *)
(* that are absent, null, empty or given, member arrays that are absent,   *)
(* null, no array or an array, and records that are no objects.            *)
(***************************************************************************)
Categories == {"absent", "null", "empty", "given"}

StrVal(c) ==
    CASE c = "absent" -> JUndef [] c = "null" -> JNull
      [] c = "empty" -> EmptyStr [] OTHER -> JStr(<<"d">>)
ListVal(c) ==
    CASE c = "absent" -> JUndef [] c = "null" -> JNull
      [] c = "empty" -> EmptyArr [] OTHER -> JArr(<<JStr(<<"r">>)>>)
BoolVal(c) ==
    CASE c = "absent" -> JUndef [] c = "null" -> JNull
      [] c = "empty" -> JBool(FALSE) [] OTHER -> JBool(TRUE)
ObjVal(c) ==
    CASE c = "absent" -> JUndef [] c = "null" -> JNull
      [] OTHER -> MkObj([type |-> JStr(<<"S">>)])

\* A member named x whose optional fields are all of one category.
FieldMember(c) ==
    MkObj([name |-> JStr(<<"x">>), description |-> StrVal(c), remarks |-> ListVal(c),
           examples |-> ListVal(c), params |-> ListVal(c), returns |-> ObjVal(c),
           devNotes |-> ListVal(c), todos |-> ListVal(c), throws |-> ListVal(c),
           requires |-> ListVal(c), isStatic |-> BoolVal(c), isProtected |-> BoolVal(c),
           isDefaultMember |-> BoolVal(c), deprecation |-> ObjVal(c),
           access |-> StrVal(c)])

\* A record named A whose optional fields are all of one category, with the
\* given member arrays.
FieldRecord(c, ctors, props, meths, evts) ==
    MkObj([name |-> JStr(<<"A">>), fileName |-> StrVal(c), description |-> StrVal(c),
           remarks |-> ListVal(c), examples |-> ListVal(c), devNotes |-> ListVal(c),
           todos |-> ListVal(c), requires |-> ListVal(c), implements |-> ListVal(c),
           constructors |-> ctors, properties |-> props, methods |-> meths,
           events |-> evts])

FieldDocumentsOf(c) ==
    {JArr(<<FieldRecord(c, ctors, props, meths, evts)>>) :
        ctors \in {JUndef, JNull, EmptyArr, JArr(<<FieldMember(c)>>)},
        props \in {JUndef, JArr(<<FieldMember(c)>>)},
        meths \in {JUndef, JStr(<<"m">>), JArr(<<FieldMember(c)>>)},
        evts \in {JUndef, JNull, EmptyArr, JArr(<<FieldMember(c)>>)}}

FieldDocuments == UNION {FieldDocumentsOf(c) : c \in Categories}

\* Records of every kind: classes by constructors or by events alone, modules
\* with and without members, a record without a name and a number.
MixedRecords ==
    {MkObj([name |-> JStr(<<"A">>), constructors |-> EmptyArr]),
     MkObj([name |-> JStr(<<"B">>), events |-> JNull]),
     MkObj([name |-> JStr(<<"A">>), methods |-> JArr(<<RawMember(<<"x">>, FALSE)>>)]),
     MkObj([name |-> JStr(<<"B">>)]),
     MkObj([constructors |-> EmptyArr]),
     JNum(1)}

\* Arrays the normalizer throws on: a null record, a null member.
ThrowingDocuments ==
    {JArr(<<PlainClass(<<"A">>), JNull>>),
     JArr(<<MkObj([name |-> JStr(<<"A">>), constructors |-> JArr(<<JNull>>)])>>),
     JArr(<<MkObj([name |-> JStr(<<"A">>), events |-> EmptyArr,
                   properties |-> JArr(<<RawMember(<<"x">>, FALSE), JNull>>)])>>),
     JArr(<<PlainModule(<<"B">>), MkObj([name |-> JStr(<<"A">>), methods |-> JArr(<<JNull>>)])>>)}

\* Bodies that parse and are no array.
NonArrayBodies == {JNull, JNum(1), MkObj([name |-> JStr(<<"A">>)])}

LoaderDocuments ==
    FieldDocuments
    \cup {JArr(s) : s \in SeqsUpTo(MixedRecords, MaxRecords)}
    \cup MemberDocuments
    \cup ThrowingDocuments
    \cup NonArrayBodies

LoaderInit == Mounted(JsonResponses(LoaderDocuments) \cup FailedResponses, {JNull})

LoaderNext == FetchSucceeds \/ FetchFails

LoaderSpec == LoaderInit /\ [][LoaderNext]_vars

(***************************************************************************)
(* Properties of the loader.                                               *)
(***************************************************************************)
\* The fetch has settled and set the document.
Loaded == ~loading /\ error = NoError

\* The records of the response body (none when it is no array).
BodyItems == IF response.kind = "json" /\ response.body.jt = "array"
             THEN response.body.jv ELSE <<>>

\* The record carries field f in the payload.
Carries(item, f) == item.jt = "object" /\ f \in DOMAIN item.jv
RawName(item) == IF Carries(item, "name") THEN item.jv["name"] ELSE JUndef
CarriesClassField(item) == Carries(item, "constructors") \/ Carries(item, "events")

RECURSIVE RawNamesWhere(_, _)
\* The names of the records that carry (cls) or lack (~cls) a class field.
RawNamesWhere(items, cls) ==
    IF items = <<>> THEN <<>>
    ELSE IF CarriesClassField(Head(items)) = cls
         THEN <<RawName(Head(items))>> \o RawNamesWhere(Tail(items), cls)
         ELSE RawNamesWhere(Tail(items), cls)

NamesOf(list) == [i \in DOMAIN list |-> list[i].name]

\* C1: a record of the fetched array is a class exactly when it carries a
\* constructors or an events field (whatever the field's value and whatever
\* the record's name), and a module otherwise: the classes are the records
\* that carry one, the modules the records that carry none.
C1_ClassIffConstructorsOrEvents ==
    Loaded =>
        /\ NamesOf(data.classes) = RawNamesWhere(BodyItems, TRUE)
        /\ NamesOf(data.modules) = RawNamesWhere(BodyItems, FALSE)

\* A class and a module of the loaded document have the same name.
C1_Witness ==
    /\ Loaded
    /\ \E i \in DOMAIN data.classes : \E j \in DOMAIN data.modules :
          /\ data.classes[i].name.jt = "string"
          /\ data.classes[i].name = data.modules[j].name

\* A property read of a normalized object.
Field(r, f) == IF f \in DOMAIN r THEN r[f] ELSE JUndef
IsStr(v) == v.jt = "string"
IsList(v) == v.jt = "array"
IsBool(v) == v.jt = "boolean"

CommonLists == {"remarks", "examples", "devNotes", "todos", "requires"}

ModuleDefaulted(it) ==
    /\ IsStr(Field(it, "description")) /\ IsStr(Field(it, "fileName"))
    /\ \A f \in CommonLists : IsList(Field(it, f))
ClassDefaulted(it) == ModuleDefaulted(it) /\ IsList(Field(it, "implements"))

\* What every member kind gets: description, the lists, isProtected, params.
MemberCommonDefaulted(m) ==
    /\ IsStr(Field(m, "description"))
    /\ \A f \in CommonLists : IsList(Field(m, f))
    /\ IsBool(Field(m, "isProtected"))
    /\ IsList(Field(m, "params"))
\* And the rest: the other flags, returns, throws and deprecation.
MemberRestDefaulted(m) ==
    /\ IsBool(Field(m, "isStatic")) /\ IsBool(Field(m, "isDefaultMember"))
    /\ Field(m, "returns").jt = "object"
    /\ IsList(Field(m, "throws"))
    /\ Field(m, "deprecation").jt = "object"
MemberRestUndefined(m) ==
    \A f \in {"isStatic", "isDefaultMember", "returns", "throws", "deprecation"} :
        Field(m, f) = JUndef

\* The members of the document that are no events, and its events.
CallableMembers ==
    UNION {{c.constructors[i] : i \in DOMAIN c.constructors}
           \cup {c.properties[i] : i \in DOMAIN c.properties}
           \cup {c.methods[i] : i \in DOMAIN c.methods} :
           c \in {data.classes[k] : k \in DOMAIN data.classes}}
    \cup UNION {{m.functions[i] : i \in DOMAIN m.functions} :
                m \in {data.modules[k] : k \in DOMAIN data.modules}}
EventMembers ==
    UNION {{c.events[i] : i \in DOMAIN c.events} :
           c \in {data.classes[k] : k \in DOMAIN data.classes}}

ItemsDefaulted ==
    /\ \A k \in DOMAIN data.classes : ClassDefaulted(data.classes[k])
    /\ \A k \in DOMAIN data.modules : ModuleDefaulted(data.modules[k])

\* C6 as stated: after normalization every class and module, and every
\* member of every kind, events included, has its strings, lists and flags
\* defaulted, and params, returns and throws defaulted alike.
C6_Original ==
    Loaded =>
        /\ ItemsDefaulted
        /\ \A m \in CallableMembers \cup EventMembers :
              MemberCommonDefaulted(m) /\ MemberRestDefaulted(m)

\* C6, amended: for a document whose fields, where given, have their
\* declared types, every class and module has its strings and lists
\* defaulted; every member has description, the lists, isProtected and
\* params defaulted; constructors, properties, methods and functions also
\* have isStatic, isDefaultMember, returns, throws and deprecation
\* defaulted, alike; an event has no isStatic, isDefaultMember, returns,
\* throws or deprecation at all.
C6_DefaultedExceptEvents ==
    Loaded =>
        /\ ItemsDefaulted
        /\ \A m \in CallableMembers : MemberCommonDefaulted(m) /\ MemberRestDefaulted(m)
        /\ \A m \in EventMembers : MemberCommonDefaulted(m) /\ MemberRestUndefined(m)

\* A class whose fields, constructor and event give no optional field is loaded.
C6_Witness ==
    /\ Loaded
    /\ response.body =
         JArr(<<FieldRecord("absent", JArr(<<FieldMember("absent")>>), JUndef, JUndef,
                            JArr(<<FieldMember("absent")>>))>>)
    /\ Len(data.classes[1].events) = 1 /\ Len(data.classes[1].constructors) = 1

RECURSIVE Interleaved(_, _, _)
\* names is an interleaving of cs and ms: each of its entries is the next of
\* cs or the next of ms, and both are used up.
Interleaved(names, cs, ms) ==
    IF names = <<>> THEN cs = <<>> /\ ms = <<>>
    ELSE \/ cs # <<>> /\ Head(cs) = Head(names) /\ Interleaved(Tail(names), Tail(cs), ms)
         \/ ms # <<>> /\ Head(ms) = Head(names) /\ Interleaved(Tail(names), cs, Tail(ms))

\* C7: every record of the array is in exactly one of the two lists, once
\* (the lengths add up), and each list keeps the records' input order.
C7_PartitionInOrder ==
    Loaded =>
        /\ Len(data.classes) + Len(data.modules) = Len(BodyItems)
        /\ Interleaved([i \in DOMAIN BodyItems |-> RawName(BodyItems[i])],
                       NamesOf(data.classes), NamesOf(data.modules))

\* Two classes with different names, and so an order to keep, are loaded.
C7_Witness ==
    /\ Loaded
    /\ Len(data.classes) >= 2
    /\ data.classes[1].name # data.classes[2].name

(***************************************************************************)
(* The claims about the running application (Spec).                        *)
(***************************************************************************)
\* The step of the URL effect.
EffectStep == effectPending /\ ~effectPending'

\* Some record of the list has the name.
HasNamed(list, name) == \E i \in DOMAIN list : list[i].name = JStr(name)

\* The first record of the list with the name.
FirstNamed(list, name) ==
    list[CHOOSE i \in DOMAIN list :
            /\ list[i].name = JStr(name)
            /\ \A j \in 1..(i - 1) : list[j].name # JStr(name)]

\* The item and member names of the query (q is a string).
QItem == ItemNameOf(q.jv)
QMember == MemberNameOf(q.jv)
QNamesMember == Truthy(q) /\ Truthy(QMember)

\* Every kind of member list an item may hold.
AllKinds == {"constructor", "property", "method", "event", "function"}
KindsOf(type) == IF type = "class" THEN AllKinds \ {"function"} ELSE {"function"}

\* The record has a member of the name, of some kind.
HasMember(obj, type, name) ==
    \E k \in KindsOf(type) : \E i \in DOMAIN ListOf(obj, k) : ListOf(obj, k)[i].name = name

\* The member blocks of a rendered sequence of elements.
MemberElements(elements) == {j \in DOMAIN elements : elements[j].etype = "member"}
Highlighted(elements) == {j \in MemberElements(elements) : elements[j].highlight}

\* An item is shown in the content area.
ItemShown == mounted /\ Content \in {"class", "module"}

\* C4: the deep link resolves the item name against the classes first and
\* only then against the modules: when a class has the name the selection is
\* that class, whether or not a module has it too, and a module is selected
\* only when no class has the name.
C4_ClassesBeforeModules ==
    [][(EffectStep /\ Truthy(q)) =>
          /\ HasNamed(data.classes, QItem) =>
                selectedItem' = [type |-> "class", name |-> JStr(QItem)]
          /\ (~HasNamed(data.classes, QItem) /\ HasNamed(data.modules, QItem)) =>
                selectedItem' = [type |-> "module", name |-> JStr(QItem)]]_vars

\* The deep link named an item that is both a class and a module, and the
\* class is the selection.
C4_Witness ==
    /\ Loaded /\ ~effectPending /\ Truthy(q)
    /\ HasNamed(data.classes, QItem) /\ HasNamed(data.modules, QItem)
    /\ selectedItem = [type |-> "class", name |-> JStr(QItem)]
    /\ Content = "class"

\* C3: when the item name of q matches no class and no module of the loaded
\* document, the deep link selects nothing: the selection is what it was, and
\* with no selection the welcome view is shown.
C3_UnknownItemSelectsNothing ==
    [][(/\ EffectStep /\ Truthy(q)
        /\ ~HasNamed(data.classes, QItem) /\ ~HasNamed(data.modules, QItem)) =>
          /\ selectedItem' = selectedItem
          /\ scrollTimer' = scrollTimer
          /\ (selectedItem = NoSelection => Content' = "welcome")]_vars

\* The effect has run for a q that names no item of a loaded, non-empty
\* document, and the welcome view is shown.
C3_Witness ==
    /\ Loaded /\ ~effectPending /\ Truthy(q)
    /\ Len(data.classes) > 0 /\ Len(data.modules) > 0
    /\ ~HasNamed(data.classes, QItem) /\ ~HasNamed(data.modules, QItem)
    /\ selectedItem = NoSelection /\ Content = "welcome"

\* The members of the shown item that carry the deep-linked name are
\* highlighted, the others are not, and the blocks rendered are the ones the
\* mode shows: every function of a module; of a class, every member in
\* developer mode and the members that are not protected in user mode.
HighlightFollowsMode ==
    /\ \A j \in MemberElements(Detail) :
          Detail[j].highlight <=> (Detail[j].name = highlightedMember)
    /\ \A k \in KindsOf(selectedItem.type) :
          \A i \in DOMAIN ListOf(SelectedObject, k) :
             (\E j \in MemberElements(Detail) : Detail[j].kind = k /\ Detail[j].index = i)
             <=> (k = "function" \/ devMode \/ ~Truthy(ListOf(SelectedObject, k)[i].isProtected))

\* C2 as stated: in user mode, a q of the form Foo.Bar, where an item Foo
\* has a member Bar of whatever kind, protected or not, selects Foo and
\* highlights Bar.
C2_Original ==
    [][(/\ EffectStep /\ QNamesMember /\ ~devMode
        /\ \/ \E i \in DOMAIN data.classes :
                 /\ data.classes[i].name = JStr(QItem)
                 /\ HasMember(data.classes[i], "class", QMember)
           \/ \E i \in DOMAIN data.modules :
                 /\ data.modules[i].name = JStr(QItem)
                 /\ HasMember(data.modules[i], "module", QMember)) =>
          /\ selectedItem'.name = JStr(QItem)
          /\ \E j \in MemberElements(Detail') :
                Detail'[j].name = QMember /\ Detail'[j].highlight]_vars

\* C2, amended: a q of the form Foo.Bar, where an item is named Foo, selects
\* the first class named Foo, or with no such class the first module named
\* Foo, shows its detail view and makes Bar the highlighted name; the
\* members of the item shown whose name is the highlighted name are
\* highlighted when they are rendered, which in user mode a protected member
\* of a class is not.
C2_HighlightsShownMember ==
    /\ [][(/\ EffectStep /\ QNamesMember
            /\ (HasNamed(data.classes, QItem) \/ HasNamed(data.modules, QItem))) =>
              /\ selectedItem' = [type |-> IF HasNamed(data.classes, QItem)
                                           THEN "class" ELSE "module",
                                  name |-> JStr(QItem)]
              /\ highlightedMember' = QMember
              /\ Content' = selectedItem'.type
              /\ SelectedObject' = IF HasNamed(data.classes, QItem)
                                   THEN FirstNamed(data.classes, QItem)
                                   ELSE FirstNamed(data.modules, QItem)]_vars
    /\ [](ItemShown => HighlightFollowsMode)

\* In user mode the deep link has selected a class with two members of the
\* deep-linked name, a protected one that is not rendered and another one
\* that is rendered and highlighted.
C2_Witness ==
    /\ Loaded /\ ~effectPending /\ QNamesMember /\ ~devMode
    /\ selectedItem = [type |-> "class", name |-> JStr(QItem)]
    /\ highlightedMember = QMember
    /\ \E k \in KindsOf("class") : \E i \in DOMAIN ListOf(SelectedObject, k) :
          /\ ListOf(SelectedObject, k)[i].name = QMember
          /\ Truthy(ListOf(SelectedObject, k)[i].isProtected)
          /\ ~\E j \in MemberElements(Detail) : Detail[j].kind = k /\ Detail[j].index = i
    /\ Highlighted(Detail) # {}

\* The array holds a null.
HoldsNull(v) == v.jt = "array" /\ \E i \in DOMAIN v.jv : v.jv[i] = JNull

\* The normalizer meets a null record, or a null member of a record, in the
\* body: the reads of its fields throw.
BodyBreaksNormalizer ==
    \E i \in DOMAIN BodyItems :
       \/ BodyItems[i] = JNull
       \/ /\ CarriesClassField(BodyItems[i])
          /\ \E f \in {"constructors", "properties", "methods", "events"} :
                Carries(BodyItems[i], f) /\ HoldsNull(BodyItems[i].jv[f])
       \/ /\ BodyItems[i].jt = "object" /\ ~CarriesClassField(BodyItems[i])
          /\ Carries(BodyItems[i], "methods") /\ HoldsNull(BodyItems[i].jv["methods"])

\* The fetch of this start fails: rejection, status not OK, a body that is
\* no JSON, or a body the normalizer throws on.
FetchIsFailing ==
    \/ response.kind \in {"reject", "notOk", "badJson"}
    \/ response.kind = "json" /\ BodyBreaksNormalizer

\* C5: the fetch is made once: it settles once and is never started again.
\* When it fails, the settling sets the one error message and leaves the
\* document empty, with no part of the normalized lists in it; after the
\* fetch has settled, the error and the document never change again.
C5_OneAttemptFailClosed ==
    [][/\ loading' => loading
       /\ ~loading => UNCHANGED <<error, data, response>>
       /\ (loading /\ ~loading' /\ FetchIsFailing) =>
             /\ error' = ErrorMessage
             /\ data' = EmptyData
       /\ (loading /\ ~loading' /\ ~FetchIsFailing) => error' = NoError
       /\ error' # NoError => data' = EmptyData /\ Content' = "error"]_vars

\* The normalizer has thrown on the second record of a body, after a first
\* record it could normalize: the error is shown and the document is empty.
C5_Witness ==
    /\ ~loading /\ error = ErrorMessage /\ Content = "error"
    /\ response.kind = "json" /\ Len(BodyItems) = 2
    /\ BodyItems[1] # JNull /\ BodyItems[2] = JNull
    /\ data = EmptyData

\* The member blocks of the elements that show a member that is not
\* protected, in order.
PublicBlocks(elements) ==
    SelectSeq(elements,
              LAMBDA e : /\ e.etype = "member"
                         /\ ~Truthy(ListOf(SelectedObject, e.kind)[e.index].isProtected))

\* C8: for the selected class or module, the members that are not protected
\* are shown alike in the two modes, the same blocks in the same number and
\* order, in the detail view and in the outline; and a toggle of the mode
\* changes the mode only, so that a second toggle restores the view.
C8_ToggleKeepsPublicMembers ==
    /\ [](SelectedIndex # 0 =>
            /\ PublicBlocks(DetailFor(TRUE, highlightedMember))
                 = PublicBlocks(DetailFor(FALSE, highlightedMember))
            /\ PublicBlocks(OutlineFor(TRUE, highlightedMember))
                 = PublicBlocks(OutlineFor(FALSE, highlightedMember)))
    /\ [][devMode' # devMode =>
            /\ devMode' = ~devMode
            /\ UNCHANGED <<response, q, innerWidth, selectedItem, data, loading,
                           error, isLeftPanelMinimized, isRightPanelMinimized,
                           isLeftPanelOpenMobile, isRightPanelOpenMobile,
                           highlightedMember, effectPending, scrollTimer,
                           scrolledTo, mounted>>]_vars

\* Developer mode is on for a class with a protected and an unprotected
\* member: both are shown, and user mode would show the second one only.
C8_Witness ==
    /\ ItemShown /\ devMode /\ selectedItem.type = "class"
    /\ \E j \in MemberElements(Detail) :
          Truthy(ListOf(SelectedObject, Detail[j].kind)[Detail[j].index].isProtected)
    /\ PublicBlocks(Detail) # <<>>
    /\ Len(PublicBlocks(Detail)) < Cardinality(MemberElements(Detail))
    /\ Cardinality(MemberElements(DetailFor(FALSE, highlightedMember)))
         = Len(PublicBlocks(Detail))

\* The number of entries of a sequence that equal v.
Count(seq, v) == Cardinality({j \in DOMAIN seq : seq[j] = v})

\* The sequence of names is in alphabetical order.
Alphabetical(names) ==
    \A j \in DOMAIN names : \A k \in DOMAIN names :
        j < k => LocaleCompare(names[j].jv, names[k].jv) <= 0

\* C9 as stated: once the document is loaded, whatever the panel flags, the
\* Classes list renders every class name exactly once and the Modules list
\* every module name exactly once, in alphabetical order.
C9_Original ==
    (Loaded /\ mounted) =>
        /\ \A i \in DOMAIN data.classes : Count(SidebarClasses, data.classes[i].name) = 1
        /\ \A i \in DOMAIN data.modules : Count(SidebarModules, data.modules[i].name) = 1
        /\ Alphabetical(SidebarClasses) /\ Alphabetical(SidebarModules)

\* C9, amended: while the left panel is expanded or open as the mobile
\* overlay, the Classes list renders one entry per class record and the
\* Modules list one entry per module record (a name that several records
\* share appears once for each), in alphabetical order; while the panel is
\* minimized and not open on mobile, neither list is rendered.
C9_SidebarListsWhenShown ==
    (Loaded /\ mounted) =>
        IF SidebarShown
        THEN /\ Len(SidebarClasses) = Len(data.classes)
             /\ Len(SidebarModules) = Len(data.modules)
             /\ \A i \in DOMAIN data.classes :
                   Count(SidebarClasses, data.classes[i].name)
                     = Count(NamesOf(data.classes), data.classes[i].name)
             /\ \A i \in DOMAIN data.modules :
                   Count(SidebarModules, data.modules[i].name)
                     = Count(NamesOf(data.modules), data.modules[i].name)
             /\ Alphabetical(SidebarClasses) /\ Alphabetical(SidebarModules)
        ELSE SidebarClasses = <<>> /\ SidebarModules = <<>>

\* The panel shows the classes of a document that lists them out of order,
\* sorted.
C9_Witness ==
    /\ Loaded /\ mounted /\ SidebarShown
    /\ Len(data.classes) = 2
    /\ LocaleCompare(data.classes[1].name.jv, data.classes[2].name.jv) > 0
    /\ SidebarClasses = <<data.classes[2].name, data.classes[1].name>>

\* The first element of the detail view that has the id.
FirstWithId(id) ==
    IF \E j \in DOMAIN Detail : Detail[j].id = id
    THEN LET j == CHOOSE j \in DOMAIN Detail :
                      Detail[j].id = id /\ \A k \in 1..(j - 1) : Detail[k].id # id
         IN  [kind |-> Detail[j].kind, index |-> Detail[j].index]
    ELSE NoElement

\* The step of the scroll timer.
TimerStep == scrollTimer # JNull /\ scrollTimer' = JNull

\* C10 as stated: of the members of the shown item that share the
\* deep-linked name, one at most is highlighted, the first in rendering
\* order.
C10_Original ==
    ItemShown =>
        \A j \in Highlighted(Detail) :
            \A k \in MemberElements(Detail) : Detail[k].name = Detail[j].name => j <= k

\* C10, amended: every rendered member of the shown item whose name is the
\* deep-linked name is highlighted, in the detail view and in the outline,
\* and no other member is; the scroll target is one element, the first in
\* rendering order with the element id of that name at the time the timer
\* fires.
C10_AllNamesakesHighlighted ==
    /\ [](/\ \A j \in MemberElements(Detail) :
               Detail[j].highlight <=> (Detail[j].name = highlightedMember)
          /\ \A j \in MemberElements(Outline) :
               Outline[j].highlight <=> (Outline[j].name = highlightedMember))
    /\ [][TimerStep => scrolledTo' = FirstWithId(MemberId(scrollTimer.jv))]_vars

\* Two members of the shown class have the deep-linked name and are both
\* highlighted, and the page has scrolled to the first of them.
C10_Witness ==
    /\ ItemShown /\ scrollTimer = JNull
    /\ Cardinality(Highlighted(Detail)) = 2
    /\ Cardinality(Highlighted(Outline)) = 2
    /\ \E j \in Highlighted(Detail) :
          /\ \A k \in Highlighted(Detail) : j <= k
          /\ scrolledTo = [kind |-> Detail[j].kind, index |-> Detail[j].index]

\* renderContent shows one of its two "not found" messages.
NotFoundShown == mounted /\ Content \in {"classNotFound", "moduleNotFound"}

\* C11 as stated: a selection that names no item of the document shows an
\* inline "not found" message, and so does a deep link Foo.Nope whose item
\* Foo exists and has no member Nope.
C11_Original ==
    /\ []((mounted /\ Loaded /\ selectedItem # NoSelection /\ SelectedIndex = 0)
            => NotFoundShown)
    /\ [][(/\ EffectStep /\ QNamesMember
           /\ (HasNamed(data.classes, QItem) \/ HasNamed(data.modules, QItem))
           /\ ~HasMember(SelectedObject', selectedItem'.type, QMember)) =>
             NotFoundShown']_vars

\* C12: the document is written by the completion of the fetch only, once:
\* a step that changes data is the step that ends loading, from the empty
\* document; once loading has ended no step changes data, whatever the user
\* or the timer does; and the loaded data is the normalized response body.
C12_DocumentWrittenOnce ==
    /\ [][data' # data => (loading /\ ~loading' /\ data = EmptyData)]_vars
    /\ [][~loading => data' = data]_vars
    /\ [](Loaded => data = Normalize(response.body))

\* After a deep link, its scroll, a selection by click and a switch of mode
\* the document of two records listed out of order is as the fetch wrote it.
C12_Witness ==
    /\ Loaded /\ devMode /\ ~effectPending
    /\ Len(data.classes) = 2
    /\ LocaleCompare(data.classes[1].name.jv, data.classes[2].name.jv) > 0
    /\ selectedItem = [type |-> "class", name |-> data.classes[1].name]
    /\ data = Normalize(response.body)

\* The selection is an entry of one of the navigation lists.
IsSidebarEntry(sel) ==
    \/ sel.type = "class" /\ \E i \in DOMAIN data.classes : sel.name = data.classes[i].name
    \/ sel.type = "module" /\ \E i \in DOMAIN data.modules : sel.name = data.modules[i].name

\* C13 as stated: q is resolved against the loaded document once, before
\* any click on the sidebar, so that the resolution never replaces a
\* selection the user has made; after it the selection changes by clicks on
\* the sidebar only.
C13_Original ==
    /\ [][(effectPending' /\ ~effectPending) => loading]_vars
    /\ [][(EffectStep /\ selectedItem # NoSelection) => selectedItem' = selectedItem]_vars
    /\ [][(~effectPending /\ ~loading /\ selectedItem' # selectedItem) =>
            (mounted /\ SidebarShown /\ IsSidebarEntry(selectedItem'))]_vars

\* The deep link finds its item.
ItemFound == HasNamed(data.classes, QItem) \/ HasNamed(data.modules, QItem)

\* C14: the step of the URL effect that finds the item of a q with a member
\* name schedules the one scroll timer, and no other step schedules one;
\* the timer fires after that step and looks the element up once: the page
\* scrolls at that step or never, so that an element absent when the timer
\* fires is never scrolled to, also when it is rendered later.
C14_OneScrollAttempt ==
    /\ [][(EffectStep /\ QNamesMember /\ ItemFound) => scrollTimer' = QMember]_vars
    /\ [][(scrollTimer = JNull /\ scrollTimer' # JNull) =>
            (EffectStep /\ QNamesMember /\ ItemFound)]_vars
    /\ [][TimerStep =>
            /\ ~loading /\ ~effectPending /\ highlightedMember = scrollTimer
            /\ (\A j \in DOMAIN Detail : Detail[j].id # MemberId(scrollTimer.jv))
                  => scrolledTo' = NoElement]_vars
    /\ [][scrolledTo' # scrolledTo => TimerStep]_vars
    /\ [][(~loading /\ ~effectPending /\ scrollTimer = JNull) =>
            (scrollTimer' = JNull /\ scrolledTo' = scrolledTo)]_vars

\* The timer has fired while the deep-linked member was hidden; developer
\* mode now shows the member, highlighted, and the page has not scrolled.
C14_Witness ==
    /\ Loaded /\ ~effectPending /\ scrollTimer = JNull
    /\ highlightedMember # JNull /\ devMode
    /\ Highlighted(Detail) # {}
    /\ scrolledTo = NoElement

(***************************************************************************)
(* The application on bodies that are no well-formed document: records and *)
(* members without a name, records that are no objects, bodies that are no *)
(* array, arrays with a null, and the failures of the fetch.               *)
(***************************************************************************)
NamelessClass == MkObj([constructors |-> EmptyArr])
NamelessMember(prot) == MkObj([isProtected |-> JBool(prot)])
ClassWithNamelessMember(prot) ==
    MkObj([name |-> JStr(<<"A">>), constructors |-> EmptyArr,
           methods |-> JArr(<<RawMember(<<"x">>, FALSE), NamelessMember(prot)>>)])
FaultRecords ==
    {NamelessClass, JNum(1), PlainModule(<<"B">>)}
    \cup {ClassWithNamelessMember(prot) : prot \in BOOLEAN}
FaultDocuments ==
    {JArr(s) : s \in SeqsUpTo(FaultRecords, MaxRecords)}
    \cup NonArrayBodies \cup ThrowingDocuments
FaultQueries == {JNull, JStr(<<"A", ".", "x">>)}

FaultInit == Mounted(JsonResponses(FaultDocuments) \cup FailedResponses, FaultQueries)
FaultSpec == FaultInit /\ [][Next]_vars

\* C15 as stated: whatever the fetch gives, no exception escapes loading or
\* rendering: the application stays rendered, and once loading has ended
\* it shows the error message, the welcome view or a detail view.
C15_Original ==
    /\ mounted
    /\ ~loading => Content \in {"error", "welcome", "class", "module"}

\* C16 as stated: rendered without a q parameter, the application shows the
\* welcome message from its first render on, while the document is still
\* being fetched.
C16_Original ==
    (mounted /\ q = JNull /\ loading /\ selectedItem = NoSelection) => Content = "welcome"

(***************************************************************************)
(* The lists of dev notes and TODOs on the page, on documents whose        *)
(* records and members give them.                                          *)
(***************************************************************************)
NoteFields == {"devNotes", "todos"}

\* StringList renders nothing for items that are falsy or of length 0.
StringListShown(items) == Truthy(items) /\ ~(items.jt = "array" /\ items.jv = <<>>)

\* The note lists renderContent shows for the selected class or module:
\* {devMode && <StringList ... items={selected.devNotes} />}.
ItemNoteLists(obj, dev) == {f \in NoteFields : dev /\ StringListShown(obj[f])}

\* The note lists MemberCommonDetails shows for a member:
\* {item.devNotes && <StringList ... items={item.devNotes} />}.
MemberNoteLists(member) == {f \in NoteFields : Truthy(member[f]) /\ StringListShown(member[f])}

\* Every list of dev notes or TODOs in the content area: of the selected
\* item (index 0) and of each member block the detail view renders.
NotesIn(ld, err, sel, dat, dev) ==
    IF ContentIn(ld, err, sel, dat) \notin {"class", "module"} THEN {}
    ELSE LET obj == SelectedObjectIn(sel, dat)
             detail == DetailIn(ld, err, sel, dat, dev, JNull)
         IN  {[kind |-> "item", index |-> 0, field |-> f] : f \in ItemNoteLists(obj, dev)}
             \cup UNION {{[kind |-> detail[j].kind, index |-> detail[j].index, field |-> f] :
                            f \in MemberNoteLists(ListOf(obj, detail[j].kind)[detail[j].index])} :
                         j \in {k \in DOMAIN detail : detail[k].etype = "member"}}
Notes == IF mounted THEN NotesIn(loading, error, selectedItem, data, devMode) ELSE {}

\* A member x and a record A that give dev notes, TODOs or neither.
NoteList == JArr(<<JStr(<<"n">>)>>)
NoteChoices == {{}, {"devNotes"}, {"todos"}}
NotesGiven(given, f) == IF f \in given THEN NoteList ELSE EmptyArr
NotedMember(prot, given) ==
    MkObj([name |-> JStr(<<"x">>), isProtected |-> JBool(prot),
           devNotes |-> NotesGiven(given, "devNotes"), todos |-> NotesGiven(given, "todos")])
NotedMembers == {NotedMember(prot, given) : prot \in BOOLEAN, given \in NoteChoices}
NotedClass(given, ms) ==
    MkObj([name |-> JStr(<<"A">>), constructors |-> EmptyArr, methods |-> JArr(ms),
           devNotes |-> NotesGiven(given, "devNotes"), todos |-> NotesGiven(given, "todos")])
NotedModule(given, ms) ==
    MkObj([name |-> JStr(<<"A">>), methods |-> JArr(ms),
           devNotes |-> NotesGiven(given, "devNotes"), todos |-> NotesGiven(given, "todos")])
NotedDocuments ==
    {JArr(<<NotedClass(given, ms)>>) : given \in NoteChoices, ms \in SeqsUpTo(NotedMembers, MaxMembers)}
    \cup {JArr(<<NotedModule(given, ms)>>) : given \in NoteChoices, ms \in SeqsUpTo(NotedMembers, MaxMembers)}
    \cup {JArr(<<PlainClass(<<"A">>), PlainModule(<<"B">>)>>)}
NotedQueries == {JNull, JStr(<<"A", ".", "x">>)}

NotesInit == Mounted(JsonResponses(NotedDocuments) \cup FailedResponses, NotedQueries)
NotesSpec == NotesInit /\ [][Next]_vars

\* C17 as stated: in user mode the content area holds no list of dev notes
\* and no list of TODOs, of the selected item or of any of its members.
C17_Original == (mounted /\ ~devMode) => Notes = {}

\* The member blocks of a rendered sequence that show a protected member of
\* the selected item, and the members of a kind that the sequence shows.
ProtectedBlocks(elements) ==
    {j \in MemberElements(elements) :
        Truthy(ListOf(SelectedObject, elements[j].kind)[elements[j].index].isProtected)}
ShownOfKind(elements, kind) ==
    {elements[j].index : j \in {k \in MemberElements(elements) : elements[k].kind = kind}}
ShowsEveryMember(elements) ==
    \A kind \in KindsOf(selectedItem.type) :
        ShownOfKind(elements, kind) = DOMAIN ListOf(SelectedObject, kind)

\* C18 as stated: in user mode no protected member of the selected class or
\* module is shown, in the detail view or in the outline; in dev mode every
\* member is shown.
C18_Original ==
    ItemShown =>
        /\ ~devMode => (ProtectedBlocks(Detail) = {} /\ ProtectedBlocks(Outline) = {})
        /\ devMode => (ShowsEveryMember(Detail) /\ (OutlineShown => ShowsEveryMember(Outline)))

\* C18: in user mode no protected constructor, property, method or event of
\* the selected class is shown, in the detail view or in the outline; the
\* functions of the selected module are all shown in both modes, protected
\* or not; and in dev mode every member of the selected item is shown (in
\* the outline when the outline is on the page).
C18_ProtectedClassMembersHidden ==
    ItemShown =>
        /\ (~devMode /\ selectedItem.type = "class") =>
              (ProtectedBlocks(Detail) = {} /\ ProtectedBlocks(Outline) = {})
        /\ (devMode \/ selectedItem.type = "module") =>
              (ShowsEveryMember(Detail) /\ (OutlineShown => ShowsEveryMember(Outline)))

\* User mode shows a module with a protected function, in the detail view
\* and in the outline.
C18_Witness ==
    /\ ItemShown /\ OutlineShown /\ ~devMode /\ selectedItem.type = "module"
    /\ ProtectedBlocks(Detail) # {}
    /\ ProtectedBlocks(Outline) # {}

\* C19 as stated: with an item shown and the outline on the page, in either
\* mode, every entry of the outline (section header or member) targets an
\* id that an element of the detail view has, and every section and member
\* of the detail view has its entry in the outline.
C19_Original ==
    (ItemShown /\ OutlineShown) =>
        /\ \A j \in DOMAIN Outline : \E k \in DOMAIN Detail : Detail[k].id = Outline[j].id
        /\ \A k \in DOMAIN Detail : \E j \in DOMAIN Outline :
              /\ Outline[j].etype = Detail[k].etype
              /\ Outline[j].kind = Detail[k].kind
              /\ Outline[j].index = Detail[k].index

\* C20: at most one mobile overlay is open: in every state reached by any
\* sequence of openLeftPanelMobile, openRightPanelMobile, closeMobilePanels,
\* the desktop toggles and resizes (and every other step of the
\* application), isLeftPanelOpenMobile and isRightPanelOpenMobile are never
\* both true.
C20_OneOverlayOpen == ~(isLeftPanelOpenMobile /\ isRightPanelOpenMobile)

\* On a narrow window the right overlay is open with the sidebar minimized
\* and the left overlay closed.
C20_Witness ==
    /\ mounted /\ innerWidth = "mobile"
    /\ isRightPanelOpenMobile /\ ~isLeftPanelOpenMobile
    /\ isLeftPanelMinimized /\ isRightPanelMinimized

\* C21 as stated: a member block is highlighted only while the item shown is
\* the item that q names; once another class or module has been selected in
\* the sidebar none of its members is highlighted, a namesake of the
\* deep-linked member included.
C21_Original ==
    (ItemShown /\ Highlighted(Detail) # {}) =>
        (Truthy(q) /\ selectedItem.name = JStr(QItem))

(***************************************************************************)
(* The link a member block copies, and what a page loaded with it reads.   *)
(***************************************************************************)
\* The text after "?q=" of the url of a member block:
\* `?q=${parentName}.${member.name}`.
CopyLinkQuery(parentName, memberName) == parentName \o <<".">> \o memberName

RECURSIVE SearchParamValue(_)
\* new URLSearchParams(search).get('q') for the search "?q=" + text: the
\* value ends at the first '&' (and the search at a '#'), and a '+' is read
\* as a space.
SearchParamValue(text) ==
    IF text = <<>> \/ Head(text) \in {"&", "#"} THEN <<>>
    ELSE <<IF Head(text) = "+" THEN " " ELSE Head(text)>> \o SearchParamValue(Tail(text))

\* The items of the document of a type.
ItemsOf(dat, type) == IF type = "class" THEN dat.classes ELSE dat.modules

\* q is what a page reads from the link copied from member m, of kind k, of
\* item i of a type.
IsLinkOf(type, i, k, m) ==
    LET item == ItemsOf(data, type)[i]
        member == ListOf(item, k)[m]
    IN  /\ item.name.jt = "string" /\ member.name.jt = "string"
        /\ q = JStr(SearchParamValue(CopyLinkQuery(item.name.jv, member.name.jv)))

\* C22 as stated: a page loaded with the link copied from a member M of an
\* item I selects I, of the same type, and highlights M, also when a class
\* and a module share the name and when M is protected.
C22_Original ==
    [][EffectStep =>
        \A type \in {"class", "module"} : \A i \in DOMAIN ItemsOf(data, type) :
          \A k \in KindsOf(type) : \A m \in DOMAIN ListOf(ItemsOf(data, type)[i], k) :
            IsLinkOf(type, i, k, m) =>
              /\ selectedItem' = [type |-> type, name |-> ItemsOf(data, type)[i].name]
              /\ \E j \in Highlighted(DetailIn(loading', error', selectedItem', data',
                                               devMode', highlightedMember')) :
                    /\ DetailIn(loading', error', selectedItem', data',
                                devMode', highlightedMember')[j].kind = k
                    /\ DetailIn(loading', error', selectedItem', data',
                                devMode', highlightedMember')[j].index = m]_vars

\* C23: a selection names an item of the loaded document under its type, a
\* class for 'class' and a module for 'module': the content area never
\* shows "Class not found." or "Module not found.", and the item the outline
\* panel is given is never undefined.
C23_SelectionExists ==
    selectedItem # NoSelection =>
        /\ IsSidebarEntry(selectedItem)
        /\ SelectedIndex # 0
        /\ Content \notin {"classNotFound", "moduleNotFound"}

\* A module is selected and shown, with the outline on the page, in a
\* document that has a class too.
C23_Witness ==
    /\ ItemShown /\ OutlineShown
    /\ selectedItem.type = "module"
    /\ data.classes # <<>>
    /\ Outline # <<>>

\* C24: a selection exists only after a successful load: whenever
\* selectedItem is not null, loading is false, error is null and the
\* document has a record; so the loading message and the error message are
\* never on the page together with a selection or an outline panel.
C24_SelectionAfterLoad ==
    /\ selectedItem # NoSelection =>
          /\ ~loading
          /\ error = NoError
          /\ Len(data.classes) + Len(data.modules) > 0
    /\ Content \in {"loading", "error"} =>
          (selectedItem = NoSelection /\ ~AsideShown /\ Outline = <<>>)

\* A click on the sidebar has selected an item of a loaded document, with
\* no q in the URL.
C24_Witness ==
    /\ mounted /\ q = JNull
    /\ selectedItem # NoSelection
    /\ ~loading /\ error = NoError
    /\ Len(data.classes) + Len(data.modules) > 0

\* The fetch has settled: the error is set, or the document is the
\* normalized body.
Settled ==
    /\ ~loading
    /\ \/ error = ErrorMessage
       \/ (response.kind = "json" /\ data = Normalize(response.body))

\* C25: loading is true at first; the one step that clears it is the
\* settling of the fetch, on success and on every failure, and no step sets
\* it again; with a fetch that settles, every run reaches a state with
\* loading false and the error set or the document assigned, and stays
\* there.
C25_LoadingClearedOnce ==
    /\ [][loading' => loading]_vars
    /\ [][(loading /\ ~loading') => Settled']_vars
    /\ [][~loading => (loading' = loading /\ error' = error /\ data' = data)]_vars
    /\ (loading = TRUE /\ error = NoError /\ data = EmptyData)
    /\ <>[]Settled

\* A JSON body on which the normalizer throws has cleared the loading flag
\* through the catch block.
C25_Witness ==
    /\ ~loading /\ error = ErrorMessage
    /\ response.kind = "json"
    /\ data = EmptyData

\* The response was fetched and parsed, and its body is no array.
NonArrayFetched == response.kind = "json" /\ ~IsArray(response.body)

\* C26: a fetched and parsed body that is no JSON array is no failure: once
\* the fetch has settled the document has no class and no module, error is
\* null, and the page shows the welcome view with an empty sidebar and no
\* selection, whatever q is.
C26_NonArrayIsEmptyDocument ==
    (NonArrayFetched /\ ~loading) =>
        /\ data = EmptyData
        /\ error = NoError
        /\ mounted
        /\ selectedItem = NoSelection
        /\ Content = "welcome"
        /\ SidebarClasses = <<>> /\ SidebarModules = <<>>

\* A JSON object has been fetched for a deep link: the URL effect has run,
\* and the page shows the welcome view beside the open, empty sidebar.
C26_Witness ==
    /\ NonArrayFetched /\ response.body.jt = "object"
    /\ ~loading /\ ~effectPending
    /\ Truthy(q)
    /\ mounted /\ SidebarShown
    /\ Content = "welcome"

RECURSIVE RawItemsWhere(_, _)
\* The records that carry (cls) or lack (~cls) a class field, in order.
RawItemsWhere(items, cls) ==
    IF items = <<>> THEN <<>>
    ELSE IF CarriesClassField(Head(items)) = cls
         THEN <<Head(items)>> \o RawItemsWhere(Tail(items), cls)
         ELSE RawItemsWhere(Tail(items), cls)

\* The members a record gives under a field (none when the field is absent
\* or holds no array), and their names.
RawMembersOf(item, f) ==
    IF Carries(item, f) /\ item.jv[f].jt = "array" THEN item.jv[f].jv ELSE <<>>
RawMemberNames(item, f) ==
    [i \in DOMAIN RawMembersOf(item, f) |-> RawName(RawMembersOf(item, f)[i])]

\* The field of the payload that holds the members of a kind of a class.
ClassField(kind) ==
    CASE kind = "constructor" -> "constructors"
      [] kind = "property" -> "properties"
      [] kind = "method" -> "methods"
      [] OTHER -> "events"

\* The member lists of every class are its four source arrays.
ClassMembersKept ==
    \A k \in DOMAIN data.classes :
        \A kind \in KindsOf("class") :
            NamesOf(ListOf(data.classes[k], kind))
              = RawMemberNames(RawItemsWhere(BodyItems, TRUE)[k], ClassField(kind))

\* C27 as stated: the four member lists of a class have the length, names
\* and order of its source arrays; the functions of a module have those of
\* the record's member array, and no member of the record is dropped.
C27_Original ==
    Loaded =>
        /\ ClassMembersKept
        /\ \A k \in DOMAIN data.modules :
              LET src == RawItemsWhere(BodyItems, FALSE)[k]
              IN  /\ NamesOf(data.modules[k].functions) = RawMemberNames(src, "methods")
                  /\ \A f \in {"properties", "functions"} : RawMembersOf(src, f) = <<>>

\* C27: the four member lists of a class have the length, names and order
\* of its constructors, properties, methods and events arrays; the functions
\* of a module have the length, names and order of the record's methods
\* array, whatever other member arrays the record gives: those are not read.
C27_MembersKeptFromReadArrays ==
    Loaded =>
        /\ ClassMembersKept
        /\ \A k \in DOMAIN data.modules :
              NamesOf(data.modules[k].functions)
                = RawMemberNames(RawItemsWhere(BodyItems, FALSE)[k], "methods")

\* A module record with a methods array and a properties array is loaded:
\* its functions are the methods, and the properties are in no list.
C27_Witness ==
    /\ Loaded
    /\ \E k \in DOMAIN data.modules :
          LET src == RawItemsWhere(BodyItems, FALSE)[k]
          IN  /\ RawMembersOf(src, "methods") # <<>>
              /\ RawMembersOf(src, "properties") # <<>>
              /\ Len(data.modules[k].functions) = Len(RawMembersOf(src, "methods"))

===============================================================================
